---------------------------- MODULE Spec2Model ----------------------------
(***************************************************************************)
(* Payment / deduction reconciliation (src/src/reconcilePayments.ts).      *)
(*                                                                         *)
(* The store is the RemittanceInvoices table (payments are the rows with   *)
(* a positive amount, deductions the rows with a negative amount), the     *)
(* BillingLedger table, and the read-only VendorCase and Vendor tables.    *)
(* A process runs main(): it loads the unmapped payments and deductions,   *)
(* builds its lookup maps, and walks the payments; every call of           *)
(* mapPaymentToDeduction is one step, and its sequelize transaction is     *)
(* one atomic unit.  Several processes may run main() at the same time:    *)
(* they interleave at the awaits, that is between these steps.             *)
(*                                                                         *)
(* Spec has one process that runs main() again and again; SpecOverlap has *)
(* several processes whose runs overlap; SpecFair is Spec with a started   *)
(* run that keeps taking steps.                                            *)
(*                                                                         *)
(* Nullable columns hold NULL == {} or {v}.  Amounts are DECIMAL columns   *)
(* held in units of 1/10000; dates are numbers YYYYMMDD; strings that the  *)
(* code searches are sequences of characters.  findAll has no ORDER BY:    *)
(* rows come in id order, and since the rows of the initial dataset are    *)
(* chosen freely per id, every order of row contents is covered.           *)
(***************************************************************************)
EXTENDS Integers, Sequences, FiniteSets, TLC

VARIABLES
    invoices,             \* RemittanceInvoices: Id -> row
    ledger,               \* BillingLedger: sequence of rows, in insertion order
    pc,                   \* per process: "idle" | "processing"
    payments,             \* per process: the rows loaded by fetchUnmappedPayments
    deductionMap,         \* per process: key -> rows, built by buildDeductionMap
    vendorCaseMap,        \* per process: case id -> VendorCase row
    vendorMap,            \* per process: vendor id -> Vendor row
    pIdx,                 \* per process: position of the outer loop of processPayments
    dIdx,                 \* per process: position of the inner loop of processPayments
    mappedPaymentsCount,  \* per process: the module-level counter
    report,               \* per process: the summary printed by the last finished run
    run,                  \* per process: number of the run it executes (0: none yet)
    started,              \* number of runs of main() started so far
    failures,             \* number of transactions that threw so far
    rerun,                \* TRUE when run 2 started after run 1 ended, with no failure
    ledgerAtStart,        \* per process: Len(ledger) when its run loaded its data
    events                \* history: one record per step of processPayments

vars == <<invoices, ledger, pc, payments, deductionMap, vendorCaseMap, vendorMap,
          pIdx, dIdx, mappedPaymentsCount, report, run, started, failures,
          rerun, ledgerAtStart, events>>

-----------------------------------------------------------------------------
(* Bounds *)

\* Runs of main() in one behaviour (each in a process of its own or one
\* after the other in the same process).
MaxStarts == 2

\* Transactions that may throw in one behaviour.
MaxFailures == 1

\* Fields of the initial dataset that differ from the reference scenario.
MaxDeviations == 2

Procs == 1..MaxStarts

PaymentIds == {101, 102}
DeductionIds == {201, 202}

-----------------------------------------------------------------------------
(* Values *)

NULL == {}
Some(v) == {v}
Val(o) == CHOOSE v \in o : TRUE

\* x ?? d
Coalesce(o, d) == IF o = NULL THEN d ELSE Val(o)

Abs(n) == IF n < 0 THEN -n ELSE n

\* String.prototype.includes on sequences of characters
Includes(str, pat) ==
    \E i \in 1..(Len(str) - Len(pat) + 1) : SubSeq(str, i, i + Len(pat) - 1) = pat

\* s?.includes(pat): undefined (falsy) when s is null
OptIncludes(o, pat) == o # NULL /\ Includes(Val(o), pat)

SC == <<"S", "C">>
PC == <<"P", "C">>


-----------------------------------------------------------------------------
(* The dataset *)

\* The reference scenario: a shortage-claim payment of 25.0000 dated 2024-02-01
\* and a shortage-claim deduction of -25.0000 dated 2024-01-15 under the same
\* vendor and root invoice, the deduction linked to a valid case.
RefPayment ==
    [VendorId |-> 1, RootInvoiceNumber |-> "INV100",
     SubInvoiceNumber |-> Some(<<"S", "C", "-", "7">>),
     InvoiceNumber |-> Some("INV-A"), PaymentNumber |-> Some("PN1"),
     InvoiceAmount |-> Some(250000), InvoiceCurrency |-> Some("USD"),
     InvoiceDate |-> 20240201,
     PaymentRemittanceId |-> NULL, ReversalForVendorCaseId |-> NULL]

RefDeduction ==
    [VendorId |-> 1, RootInvoiceNumber |-> "INV100",
     SubInvoiceNumber |-> Some(<<"S", "C", "-", "3">>),
     InvoiceNumber |-> Some("INV-D"), PaymentNumber |-> Some("PN1"),
     InvoiceAmount |-> Some(-250000), InvoiceCurrency |-> Some("USD"),
     InvoiceDate |-> 20240115,
     PaymentRemittanceId |-> NULL, ReversalForVendorCaseId |-> Some(7)]

PaymentPool ==
    [VendorId : {1}, RootInvoiceNumber : {"INV100"},
     SubInvoiceNumber : {Some(<<"S", "C", "-", "7">>), Some(<<"P", "C", "-", "7">>),
                         Some(<<"S", "C", "P", "C">>), NULL},
     InvoiceNumber : {Some("INV-A"), Some("INV-B"), NULL},
     PaymentNumber : {Some("PN1")},
     InvoiceAmount : {Some(250000), Some(250001)},
     InvoiceCurrency : {Some("USD")},
     InvoiceDate : {20240201, 20240401},
     PaymentRemittanceId : {NULL}, ReversalForVendorCaseId : {NULL}]

DeductionPool ==
    [VendorId : {1, 2}, RootInvoiceNumber : {"INV100", "INV200"},
     SubInvoiceNumber : {Some(<<"S", "C", "-", "3">>), Some(<<"P", "C", "-", "3">>),
                         Some(<<"C", "S", "-", "3">>), Some(<<"S", "C", "P", "C">>),
                         NULL},
     InvoiceNumber : {Some("INV-D")},
     PaymentNumber : {Some("PN1")},
     InvoiceAmount : {Some(-250000), Some(-250001)},
     InvoiceCurrency : {Some("USD")},
     InvoiceDate : {20240115, 20240201, 20240301},
     PaymentRemittanceId : {NULL},
     ReversalForVendorCaseId : {Some(7), Some(8), Some(9), Some(10), Some(11),
                                Some(12), NULL}]

\* VendorCase: 7 valid, 8 with an unknown validity flag, 9 explicitly invalid,
\* 10 owned by a vendor that does not exist, 11 owned by a vendor without an
\* organization; there is no case 12.
VendorCaseTable ==
    { [Id |-> 7,  IsValidCase |-> Some(TRUE),  VendorId |-> Some(1)],
      [Id |-> 8,  IsValidCase |-> NULL,        VendorId |-> Some(1)],
      [Id |-> 9,  IsValidCase |-> Some(FALSE), VendorId |-> Some(1)],
      [Id |-> 10, IsValidCase |-> Some(TRUE),  VendorId |-> Some(3)],
      [Id |-> 11, IsValidCase |-> Some(TRUE),  VendorId |-> Some(4)] }

VendorTable ==
    { [Id |-> 1, OrganizationId |-> Some(10)],
      [Id |-> 2, OrganizationId |-> Some(20)],
      [Id |-> 4, OrganizationId |-> NULL] }

\* A ledger row left by an earlier match of the reference payment.
EarlierLedgerRow ==
    [VendorId |-> 1, OrganizationId |-> 10,
     BillingKey |-> <<"PN1">>, BillingKey2 |-> <<"INV-A">>,
     KeySource |-> "RemittanceInvoice",
     Amount |-> <<250000>>, CurrencyCode |-> <<"USD">>,
     Description |-> <<"Billing for ", "INV-A">>, CaseId |-> <<7>>,
     CreatedBy |-> "auto-mapper-script"]

Deviations(row, ref) == Cardinality({f \in DOMAIN ref : row[f] # ref[f]})

RefOf(id) == IF id \in PaymentIds THEN RefPayment ELSE RefDeduction

WithId(row, id) == [f \in DOMAIN row \cup {"Id"} |-> IF f = "Id" THEN id ELSE row[f]]

\* The rows of each pool by the number of fields that differ from the reference.
PaymentRows ==
    [n \in 0..MaxDeviations |-> {r \in PaymentPool : Deviations(r, RefPayment) = n}]
DeductionRows ==
    [n \in 0..MaxDeviations |-> {r \in DeductionPool : Deviations(r, RefDeduction) = n}]
RowsOf(id) == IF id \in PaymentIds THEN PaymentRows ELSE DeductionRows

\* Every table of tables extended by one of rows under id.
Extended(id, rows, tables) == { (id :> WithId(r, id)) @@ t : r \in rows, t \in tables }

\* The tables over ids whose rows differ from the reference scenario in at
\* most budget fields.
RECURSIVE TablesOver(_, _)
TablesOver(ids, budget) ==
    IF ids = {} THEN { <<>> }
    ELSE LET id == CHOOSE i \in ids : TRUE
         IN UNION { Extended(id, RowsOf(id)[n], TablesOver(ids \ {id}, budget - n)) :
                    n \in 0..budget }

PaymentTables == TablesOver(PaymentIds, MaxDeviations)
DeductionTables == [b \in 0..MaxDeviations |-> TablesOver(DeductionIds, b)]

TableDeviations(t) ==
    LET RECURSIVE Sum(_)
        Sum(ids) == IF ids = {} THEN 0
                    ELSE LET id == CHOOSE i \in ids : TRUE
                         IN Deviations([f \in DOMAIN RefOf(id) |-> t[id][f]], RefOf(id))
                            + Sum(ids \ {id})
    IN Sum(DOMAIN t)

-----------------------------------------------------------------------------
(* Queries and lookup maps *)

\* The rows of a set of ids, in ascending id order (findAll without ORDER BY).
RECURSIVE InIdOrder(_, _)
InIdOrder(table, ids) ==
    IF ids = {} THEN << >>
    ELSE LET least == CHOOSE i \in ids : \A j \in ids : i <= j
         IN <<table[least]>> \o InIdOrder(table, ids \ {least})

fetchUnmappedPayments(table) ==
    InIdOrder(table, {id \in DOMAIN table :
                        /\ table[id].InvoiceAmount # NULL
                        /\ Val(table[id].InvoiceAmount) > 0
                        /\ table[id].PaymentRemittanceId = NULL})

fetchUnmappedDeductions(table) ==
    InIdOrder(table, {id \in DOMAIN table :
                        /\ table[id].InvoiceAmount # NULL
                        /\ Val(table[id].InvoiceAmount) < 0
                        /\ table[id].PaymentRemittanceId = NULL})

fetchVendorCases(ids) == {vc \in VendorCaseTable : vc.Id \in ids}

fetchVendors(ids) == {v \in VendorTable : v.Id \in ids}

\* KeyOf without the root invoice number.
KeyOf_vendorOnly(row) == <<row.VendorId, "|">>

\* `${VendorId}|${RootInvoiceNumber}`
KeyOf(row) == <<row.VendorId, "|", row.RootInvoiceNumber>>

\* SameKeyOnly with unshift in place of push: the group comes out reversed.
SameKeyOnly_unshift(deductions, key) ==
    LET group == SelectSeq(deductions, LAMBDA d : KeyOf(d) = key)
    IN [i \in 1..Len(group) |-> group[Len(group) + 1 - i]]

SameKeyOnly(deductions, key) == SelectSeq(deductions, LAMBDA d : KeyOf(d) = key)

buildDeductionMap(deductions) ==
    [key \in {KeyOf(deductions[i]) : i \in DOMAIN deductions} |->
        SameKeyOnly(deductions, key)]

buildVendorCaseMap(deductions) ==
    LET vendorCaseIds == {Val(deductions[i].ReversalForVendorCaseId) :
                            i \in {j \in DOMAIN deductions :
                                     deductions[j].ReversalForVendorCaseId # NULL}}
        vendorCases == fetchVendorCases(vendorCaseIds)
    IN [id \in {vc.Id : vc \in vendorCases} |->
          CHOOSE vc \in vendorCases : vc.Id = id]

buildVendorMap(vendorCases) ==
    LET vendorIds == {Val(vc.VendorId) : vc \in {c \in vendorCases : c.VendorId # NULL}}
        vendors == fetchVendors(vendorIds)
    IN [id \in {v.Id : v \in vendors} |-> CHOOSE v \in vendors : v.Id = id]

\* Map.get: NULL stands for undefined
Get(map, key) == IF key \in DOMAIN map THEN Some(map[key]) ELSE NULL

\* deductionMap.get(key) || []
deductionsForKey(map, payment) ==
    IF KeyOf(payment) \in DOMAIN map THEN map[KeyOf(payment)] ELSE << >>

-----------------------------------------------------------------------------
(* mapPaymentToDeduction *)

\* parseFloat(String(row.InvoiceAmount ?? '0')); a DECIMAL amount of at most
\* 15 significant digits is read back exactly.
ParsedAmount(row) == Coalesce(row.InvoiceAmount, 0)

\* String(x ?? ''): the empty string is the empty sequence
StringOf(o) == IF o = NULL THEN << >> ELSE <<Val(o)>>

hasClaimMarker(row) ==
    OptIncludes(row.SubInvoiceNumber, SC) \/ OptIncludes(row.SubInvoiceNumber, PC)

\* claimTypesAgree without the comparison of the two claim types.
claimTypesAgree_anyMarker(payment, deduction) == hasClaimMarker(deduction)

claimTypesAgree(payment, deduction) ==
    /\ hasClaimMarker(deduction)
    /\ ~ \/ /\ OptIncludes(payment.SubInvoiceNumber, SC)
            /\ ~OptIncludes(deduction.SubInvoiceNumber, SC)
         \/ /\ OptIncludes(payment.SubInvoiceNumber, PC)
            /\ ~OptIncludes(deduction.SubInvoiceNumber, PC)

\* amountsMatch with a tolerance of one unit of the last decimal place.
amountsMatch_tolerant(payment, deduction) ==
    Abs(ParsedAmount(payment) - Abs(ParsedAmount(deduction))) <= 1

amountsMatch(payment, deduction) ==
    ParsedAmount(payment) = Abs(ParsedAmount(deduction))

\* organizationIdOf without the test of the validity flag.
organizationIdOf_flagUnchecked(deduction, vcMap, vMap) ==
    IF deduction.ReversalForVendorCaseId = NULL THEN NULL
    ELSE LET vendorCase == Get(vcMap, Val(deduction.ReversalForVendorCaseId))
         IN IF vendorCase = NULL \/ Val(vendorCase).VendorId = NULL THEN NULL
            ELSE LET vendor == Get(vMap, Val(Val(vendorCase).VendorId))
                 IN IF vendor = NULL THEN NULL ELSE Val(vendor).OrganizationId

\* The organization id the checks of lines 133-141 end with, NULL when one
\* of them returns false.
organizationIdOf(deduction, vcMap, vMap) ==
    IF deduction.ReversalForVendorCaseId = NULL THEN NULL
    ELSE LET vendorCase == Get(vcMap, Val(deduction.ReversalForVendorCaseId))
         IN IF vendorCase = NULL \/ Val(vendorCase).IsValidCase = NULL THEN NULL
            ELSE IF Val(vendorCase).VendorId = NULL THEN NULL
            ELSE LET vendor == Get(vMap, Val(Val(vendorCase).VendorId))
                 IN IF vendor = NULL THEN NULL ELSE Val(vendor).OrganizationId

\* The checks before the transaction all pass.
passesChecks(payment, deduction, vcMap, vMap) ==
    /\ claimTypesAgree(payment, deduction)
    /\ amountsMatch(payment, deduction)
    /\ organizationIdOf(deduction, vcMap, vMap) # NULL

\* updateDeduction that also marks the payment row as consumed.
updateDeduction_marksPayment(table, deductionId, paymentId) ==
    [table EXCEPT ![deductionId].PaymentRemittanceId = Some(paymentId),
                  ![paymentId].PaymentRemittanceId = Some(deductionId)]

\* RemittanceInvoices.update({PaymentRemittanceId}, {where: {Id}})
updateDeduction(table, deductionId, paymentId) ==
    [table EXCEPT ![deductionId].PaymentRemittanceId = Some(paymentId)]

ledgerKey(payment, organizationId) ==
    [VendorId |-> payment.VendorId, OrganizationId |-> organizationId,
     BillingKey |-> StringOf(payment.PaymentNumber),
     BillingKey2 |-> StringOf(payment.InvoiceNumber),
     KeySource |-> "RemittanceInvoice"]

KeyOfLedgerRow(row) ==
    [VendorId |-> row.VendorId, OrganizationId |-> row.OrganizationId,
     BillingKey |-> row.BillingKey, BillingKey2 |-> row.BillingKey2,
     KeySource |-> row.KeySource]

\* existingBillingLedger without the lookup.
existingBillingLedger_unchecked(rows, key) == FALSE

\* BillingLedger.findOne({where: key}) finds a row
existingBillingLedger(rows, key) ==
    \E i \in DOMAIN rows : KeyOfLedgerRow(rows[i]) = key

newLedger(payment, deduction, organizationId) ==
    [VendorId |-> payment.VendorId, OrganizationId |-> organizationId,
     BillingKey |-> StringOf(payment.PaymentNumber),
     BillingKey2 |-> StringOf(payment.InvoiceNumber),
     KeySource |-> "RemittanceInvoice",
     Amount |-> StringOf(payment.InvoiceAmount),
     CurrencyCode |-> StringOf(payment.InvoiceCurrency),
     Description |-> <<"Billing for ", Coalesce(payment.InvoiceNumber, "null")>>,
     CaseId |-> StringOf(deduction.ReversalForVendorCaseId),
     CreatedBy |-> "auto-mapper-script"]

\* Where the callback of sequelize.transaction may throw.
ThrowPoints == {"update", "findOne", "create"}

\* The writes the callback has made when it throws at a point, or when it
\* returns (at "none").
writesUpTo(store, payment, deduction, organizationId, at) ==
    LET updated == updateDeduction(store.invoices, deduction.Id, payment.Id)
        key == ledgerKey(payment, organizationId)
    IN IF at = "update" THEN store
       ELSE IF at \in {"findOne", "create"} \/ existingBillingLedger(store.ledger, key)
            THEN [store EXCEPT !.invoices = updated]
       ELSE [invoices |-> updated,
             ledger |-> Append(store.ledger, newLedger(payment, deduction, organizationId))]

\* rollback as an undo written by hand: the rows the callback updated get
\* their PaymentRemittanceId set to null, the created ledger row is deleted.
rollback_clears(before, written) ==
    [invoices |-> [id \in DOMAIN before.invoices |->
                     IF written.invoices[id] = before.invoices[id]
                     THEN before.invoices[id]
                     ELSE [before.invoices[id] EXCEPT !.PaymentRemittanceId = NULL]],
     ledger |-> before.ledger]

\* rollback when the writes are made outside the transaction.
rollback_notInTransaction(before, written) == written

\* What sequelize.transaction leaves when the callback throws: every write
\* made with {transaction: t} is undone.
rollback(before, written) == before

\* The result of one call: what it returns and the store it leaves.
mapPaymentToDeduction(payment, deduction, vcMap, vMap, store, at) ==
    IF ~passesChecks(payment, deduction, vcMap, vMap)
    THEN [mapped |-> FALSE, store |-> store, outcome |-> "ineligible"]
    ELSE LET organizationId == Val(organizationIdOf(deduction, vcMap, vMap))
             written == writesUpTo(store, payment, deduction, organizationId, at)
         IN IF at = "none"
            THEN [mapped |-> TRUE, store |-> written, outcome |-> "committed"]
            ELSE [mapped |-> FALSE, store |-> rollback(store, written),
                  outcome |-> "threw"]

-----------------------------------------------------------------------------
(* The state machine *)

Init ==
    /\ \E pt \in PaymentTables :
          \E dt \in DeductionTables[MaxDeviations - TableDeviations(pt)] :
             /\ invoices = pt @@ dt
             /\ ledger \in IF TableDeviations(pt) + TableDeviations(dt) < MaxDeviations
                           THEN { << >>, <<EarlierLedgerRow>> }
                           ELSE { << >> }
    /\ pc = [r \in Procs |-> "idle"]
    /\ payments = [r \in Procs |-> << >>]
    /\ deductionMap = [r \in Procs |-> << >>]
    /\ vendorCaseMap = [r \in Procs |-> << >>]
    /\ vendorMap = [r \in Procs |-> << >>]
    /\ pIdx = [r \in Procs |-> 1]
    /\ dIdx = [r \in Procs |-> 1]
    /\ mappedPaymentsCount = [r \in Procs |-> 0]
    /\ report = [r \in Procs |-> NULL]
    /\ run = [r \in Procs |-> 0]
    /\ started = 0
    /\ failures = 0
    /\ rerun = FALSE
    /\ ledgerAtStart = [r \in Procs |-> 0]
    /\ events = {}

Event(r, kind, paymentId, deductionId) ==
    [run |-> run[r], kind |-> kind, payment |-> paymentId, deduction |-> deductionId]

\* The payment and the candidate deductions the loops of processPayments are at.
payment(r) == payments[r][pIdx[r]]
candidates(r) == deductionsForKey(deductionMap[r], payment(r))
deduction(r) == candidates(r)[dIdx[r]]

\* resetCounter without the reset.
resetCounter_kept(count) == count

\* main, line 262: mappedPaymentsCount = 0
resetCounter(count) == 0

\* afterCatch when the catch rethrows: the error reaches the catch of main,
\* which ends the process.
afterCatch_rethrows(outcome) == IF outcome = "threw" THEN "aborted" ELSE "processing"

\* Where the process is after a call returned: the catch of lines 203-209
\* returns false, so processPayments goes on whatever the outcome.
afterCatch(outcome) == "processing"

\* afterAttempt without the break.
afterAttempt_noBreak(mapped, index, length) == index + 1

\* The position of the inner loop after a call returned: break when mapped.
afterAttempt(mapped, index, length) == IF mapped THEN length + 1 ELSE index + 1

\* datedAfter without the comparison.
datedAfter_unchecked(d, p) == FALSE

\* deduction.InvoiceDate > payment.InvoiceDate
datedAfter(d, p) == d.InvoiceDate > p.InvoiceDate

\* main, lines 257-274: reset the counter, load the unmapped payments and
\* deductions, build the three maps.  A process starts its first run only
\* after the processes before it have started theirs.
main(r) ==
    /\ pc[r] = "idle"
    /\ started < MaxStarts
    /\ \A q \in Procs : q < r => run[q] # 0
    /\ LET deductions == fetchUnmappedDeductions(invoices)
           vcMap == buildVendorCaseMap(deductions)
       IN /\ payments' = [payments EXCEPT ![r] = fetchUnmappedPayments(invoices)]
          /\ vendorCaseMap' = [vendorCaseMap EXCEPT ![r] = vcMap]
          /\ vendorMap' = [vendorMap EXCEPT ![r] =
                              buildVendorMap({vcMap[id] : id \in DOMAIN vcMap})]
          /\ deductionMap' = [deductionMap EXCEPT ![r] = buildDeductionMap(deductions)]
    /\ mappedPaymentsCount' = [mappedPaymentsCount EXCEPT ![r] = resetCounter(@)]
    /\ pIdx' = [pIdx EXCEPT ![r] = 1]
    /\ dIdx' = [dIdx EXCEPT ![r] = 1]
    /\ pc' = [pc EXCEPT ![r] = "processing"]
    /\ started' = started + 1
    /\ run' = [run EXCEPT ![r] = started + 1]
    /\ rerun' = (rerun \/ (started = 1 /\ failures = 0 /\ \A q \in Procs : pc[q] = "idle"))
    /\ ledgerAtStart' = [ledgerAtStart EXCEPT ![r] = Len(ledger)]
    /\ UNCHANGED <<invoices, ledger, report, failures, events>>

\* processPayments, line 85: a payment without a claim marker is skipped.
skipPayment(r) ==
    /\ pc[r] = "processing"
    /\ pIdx[r] <= Len(payments[r])
    /\ ~hasClaimMarker(payment(r))
    /\ pIdx' = [pIdx EXCEPT ![r] = @ + 1]
    /\ dIdx' = [dIdx EXCEPT ![r] = 1]
    /\ events' = events \cup {Event(r, "skipPayment", payment(r).Id, 0)}
    /\ UNCHANGED <<invoices, ledger, pc, payments, deductionMap, vendorCaseMap,
                   vendorMap, mappedPaymentsCount, report, run, started, failures,
                   rerun, ledgerAtStart>>

\* processPayments, line 92: a deduction dated after the payment is skipped.
skipDeduction(r) ==
    /\ pc[r] = "processing"
    /\ pIdx[r] <= Len(payments[r])
    /\ hasClaimMarker(payment(r))
    /\ dIdx[r] <= Len(candidates(r))
    /\ datedAfter(deduction(r), payment(r))
    /\ dIdx' = [dIdx EXCEPT ![r] = @ + 1]
    /\ events' = events \cup {Event(r, "tooLate", payment(r).Id, deduction(r).Id)}
    /\ UNCHANGED <<invoices, ledger, pc, payments, deductionMap, vendorCaseMap,
                   vendorMap, pIdx, mappedPaymentsCount, report, run, started,
                   failures, rerun, ledgerAtStart>>

\* processPayments, lines 93-100: one call of mapPaymentToDeduction.  The
\* transaction may throw at any of its statements.
attempt(r) ==
    /\ pc[r] = "processing"
    /\ pIdx[r] <= Len(payments[r])
    /\ hasClaimMarker(payment(r))
    /\ dIdx[r] <= Len(candidates(r))
    /\ ~datedAfter(deduction(r), payment(r))
    /\ \E at \in ThrowPoints \cup {"none"} :
         LET p == payment(r)
             d == deduction(r)
             store == [invoices |-> invoices, ledger |-> ledger]
             result == mapPaymentToDeduction(p, d, vendorCaseMap[r], vendorMap[r],
                                             store, at)
         IN /\ at # "none" =>
                 /\ failures < MaxFailures
                 /\ result.outcome = "threw"
                 /\ at = "create" =>
                      ~existingBillingLedger(ledger,
                          ledgerKey(p, Val(organizationIdOf(d, vendorCaseMap[r],
                                                            vendorMap[r]))))
            /\ invoices' = result.store.invoices
            /\ ledger' = result.store.ledger
            /\ mappedPaymentsCount' =
                 [mappedPaymentsCount EXCEPT ![r] = IF result.mapped THEN @ + 1 ELSE @]
            /\ dIdx' = [dIdx EXCEPT ![r] =
                          afterAttempt(result.mapped, @, Len(candidates(r)))]
            /\ failures' = IF result.outcome = "threw" THEN failures + 1 ELSE failures
            /\ events' = events \cup {Event(r, result.outcome, p.Id, d.Id)}
            /\ pc' = [pc EXCEPT ![r] = afterCatch(result.outcome)]
    /\ UNCHANGED <<payments, deductionMap, vendorCaseMap, vendorMap, pIdx,
                   report, run, started, rerun, ledgerAtStart>>

\* processPayments, lines 91-101: the inner loop ends, the outer loop goes on.
nextPayment(r) ==
    /\ pc[r] = "processing"
    /\ pIdx[r] <= Len(payments[r])
    /\ hasClaimMarker(payment(r))
    /\ dIdx[r] > Len(candidates(r))
    /\ pIdx' = [pIdx EXCEPT ![r] = @ + 1]
    /\ dIdx' = [dIdx EXCEPT ![r] = 1]
    /\ UNCHANGED <<invoices, ledger, pc, payments, deductionMap, vendorCaseMap,
                   vendorMap, mappedPaymentsCount, report, run, started, failures,
                   rerun, ledgerAtStart, events>>

\* main, lines 284-288: the summary of the run.
finish(r) ==
    /\ pc[r] = "processing"
    /\ pIdx[r] > Len(payments[r])
    /\ report' = [report EXCEPT ![r] =
                    Some([run |-> run[r], mapped |-> mappedPaymentsCount[r],
                          total |-> Len(payments[r])])]
    /\ pc' = [pc EXCEPT ![r] = "idle"]
    /\ UNCHANGED <<invoices, ledger, payments, deductionMap, vendorCaseMap,
                   vendorMap, pIdx, dIdx, mappedPaymentsCount, run, started,
                   failures, rerun, ledgerAtStart, events>>

\* One process runs main() again and again, each run after the one before.
FirstProc == CHOOSE r \in Procs : \A q \in Procs : r <= q

Next ==
    \/ main(FirstProc)
    \/ skipPayment(FirstProc)
    \/ skipDeduction(FirstProc)
    \/ attempt(FirstProc)
    \/ nextPayment(FirstProc)
    \/ finish(FirstProc)

Spec == Init /\ [][Next]_vars

\* Several processes run main(), and their runs may overlap.
NextOverlap ==
    \E r \in Procs :
        \/ main(r)
        \/ skipPayment(r)
        \/ skipDeduction(r)
        \/ attempt(r)
        \/ nextPayment(r)
        \/ finish(r)

SpecOverlap == Init /\ [][NextOverlap]_vars

\* The steps of a run that has started.  Node resumes processPayments after
\* every await once the database has answered, so a run that can take a step
\* takes one.
running(r) ==
    \/ skipPayment(r)
    \/ skipDeduction(r)
    \/ attempt(r)
    \/ nextPayment(r)
    \/ finish(r)

SpecFair == Init /\ [][Next]_vars /\ WF_vars(running(FirstProc))

-----------------------------------------------------------------------------
(* Properties *)

Committed == {e \in events : e.kind = "committed"}

\* The deductions that point at a payment.
MappedTo(paymentId) ==
    {id \in DeductionIds : invoices[id].PaymentRemittanceId = Some(paymentId)}

ContainsSC(row) ==
    /\ row.SubInvoiceNumber # NULL
    /\ \E i \in 1..Len(Val(row.SubInvoiceNumber)) - 1 :
          Val(row.SubInvoiceNumber)[i] = "S" /\ Val(row.SubInvoiceNumber)[i + 1] = "C"

ContainsPC(row) ==
    /\ row.SubInvoiceNumber # NULL
    /\ \E i \in 1..Len(Val(row.SubInvoiceNumber)) - 1 :
          Val(row.SubInvoiceNumber)[i] = "P" /\ Val(row.SubInvoiceNumber)[i + 1] = "C"

AmountOrZero(row) == IF row.InvoiceAmount = NULL THEN 0 ELSE Val(row.InvoiceAmount)

\* Two deductions of a group carry the same invoice amount.
DuplicateAmounts(group) ==
    \E i, j \in DOMAIN group : i # j /\ group[i].InvoiceAmount = group[j].InvoiceAmount

\* A deduction a reference payment can be matched to: same key, same claim
\* type, the opposite amount, a valid case, not dated after the payment.
Matchable(paymentId, deductionId) ==
    LET p == invoices[paymentId]
        d == invoices[deductionId]
    IN /\ p.VendorId = d.VendorId /\ p.RootInvoiceNumber = d.RootInvoiceNumber
       /\ ContainsSC(p) /\ ~ContainsPC(p) /\ ContainsSC(d) /\ ~ContainsPC(d)
       /\ AmountOrZero(p) > 0 /\ AmountOrZero(p) = -AmountOrZero(d)
       /\ d.ReversalForVendorCaseId \in {Some(7), Some(9)}
       /\ d.InvoiceDate <= p.InvoiceDate

\* C1: within one run, at most one successful call of mapPaymentToDeduction
\* targets a deduction: once a match is committed for a deduction, no later
\* payment of the same run commits a match against it.
C1_OneCommitPerDeductionPerRun ==
    \A e1, e2 \in Committed :
        (e1.run = e2.run /\ e1.deduction = e2.deduction) => e1.payment = e2.payment

\* C2: when two runs overlap and both loaded the same unmapped deduction, at
\* most one of them commits a match against it.
C2_OneCommitPerDeductionAcrossRuns ==
    \A e1, e2 \in Committed :
        (e1.run # e2.run) => e1.deduction # e2.deduction

\* C3: starting from a ledger with at most one row per idempotence key
\* (VendorId, OrganizationId, BillingKey, BillingKey2, KeySource), the ledger
\* holds at most one row per key after any sequence of match attempts of any
\* runs, each attempt being one atomic unit.
C3_OneLedgerRowPerKey ==
    \A i, j \in DOMAIN ledger :
        (/\ ledger[i].VendorId = ledger[j].VendorId
         /\ ledger[i].OrganizationId = ledger[j].OrganizationId
         /\ ledger[i].BillingKey = ledger[j].BillingKey
         /\ ledger[i].BillingKey2 = ledger[j].BillingKey2
         /\ ledger[i].KeySource = ledger[j].KeySource) => i = j

\* Two overlapping runs each committed a match of a payment with the same
\* idempotence key, and the second found the row of the first.
C3_Witness ==
    /\ \E e1, e2 \in Committed :
          /\ e1.run # e2.run
          /\ invoices[e1.payment].InvoiceNumber = invoices[e2.payment].InvoiceNumber
    /\ \A r \in Procs : pc[r] = "processing"
    /\ Len(ledger) = 1

\* C4: a second run of main on the dataset left by a first completed run
\* creates no ledger row and writes no deduction's PaymentRemittanceId.
C4_RerunChangesNothing ==
    (rerun /\ started = 2) =>
        /\ \A e \in Committed : e.run # 2
        /\ \A r \in Procs : run[r] = 2 => Len(ledger) = ledgerAtStart[r]

\* C5: if the deduction group of a key holds two or more deductions with the
\* same invoice amount, no payment of that key is mapped to a deduction of the
\* group during the run.
C5_AmbiguousGroupNeverMapped ==
    \A r \in Procs : \A e \in Committed :
        e.run = run[r] =>
            ~DuplicateAmounts(deductionsForKey(deductionMap[r], invoices[e.payment]))

\* C6: as a result of one run, every payment is referenced by at most one
\* deduction: a run commits at most one match per payment, and after the
\* first run on a dataset without mappings no two deductions point at the
\* same payment.
C6_OneDeductionPerPaymentPerRun ==
    /\ \A e1, e2 \in Committed :
          (e1.run = e2.run /\ e1.payment = e2.payment) => e1.deduction = e2.deduction
    /\ started = 1 => \A p \in PaymentIds : Cardinality(MappedTo(p)) <= 1

\* A run committed a match for a payment that had a second matchable
\* deduction after the one it was mapped to, and went on to its end.
C6_Witness ==
    \E e \in Committed : \E r \in Procs :
        /\ run[r] = e.run /\ pc[r] = "idle"
        /\ \E d \in DeductionIds :
              /\ d > e.deduction
              /\ Matchable(e.payment, e.deduction) /\ Matchable(e.payment, d)
              /\ \A e2 \in Committed : e2.deduction # d

\* C7: a deduction's PaymentRemittanceId is set to a payment's id only if the
\* payment's amount equals the absolute value of the deduction's amount
\* exactly, a missing amount counting as zero.
C7_ExactAmount ==
    /\ \A e \in Committed :
          AmountOrZero(invoices[e.payment]) =
            (IF AmountOrZero(invoices[e.deduction]) < 0
             THEN -AmountOrZero(invoices[e.deduction])
             ELSE AmountOrZero(invoices[e.deduction]))
    /\ \A p \in PaymentIds : \A d \in MappedTo(p) :
          AmountOrZero(invoices[p]) \in {AmountOrZero(invoices[d]),
                                        -AmountOrZero(invoices[d])}

\* A pair whose amounts differ by 0.0001 was refused, and a pair with equal
\* amounts was committed.
C7_Witness ==
    /\ Committed # {}
    /\ \E e \in events :
          /\ e.kind = "ineligible"
          /\ AmountOrZero(invoices[e.payment]) + AmountOrZero(invoices[e.deduction])
               \in {1, -1}

\* C8: a payment whose sub-invoice contains "SC" is never matched to a
\* deduction whose sub-invoice does not, and a payment whose sub-invoice
\* contains "PC" is never matched to a deduction whose sub-invoice does not.
C8_ClaimTypeSymmetry ==
    \A p \in PaymentIds : \A d \in MappedTo(p) :
        /\ ContainsSC(invoices[p]) => ContainsSC(invoices[d])
        /\ ContainsPC(invoices[p]) => ContainsPC(invoices[d])

\* A price-claim payment was refused a shortage-claim deduction whose amount,
\* date and case would have let it match.
C8_Witness ==
    \E e \in events :
        /\ e.kind = "ineligible"
        /\ ContainsPC(invoices[e.payment]) /\ ~ContainsSC(invoices[e.payment])
        /\ ContainsSC(invoices[e.deduction]) /\ ~ContainsPC(invoices[e.deduction])
        /\ AmountOrZero(invoices[e.payment]) = -AmountOrZero(invoices[e.deduction])
        /\ invoices[e.deduction].InvoiceDate <= invoices[e.payment].InvoiceDate
        /\ invoices[e.deduction].ReversalForVendorCaseId = Some(7)

\* C9: a deduction dated strictly after a payment is never mapped to that
\* payment, and the step that skips it leaves the store as it was and the
\* deduction among the candidates of the run.
C9_ChronologyGate ==
    /\ [](\A p \in PaymentIds : \A d \in MappedTo(p) :
            invoices[d].InvoiceDate <= invoices[p].InvoiceDate)
    /\ [][(\E e \in events' \ events : e.kind = "tooLate") =>
            /\ invoices' = invoices
            /\ ledger' = ledger
            /\ deductionMap' = deductionMap]_vars

\* A deduction was skipped for an earlier payment and then mapped to a later
\* payment of the same run.
C9_Witness ==
    \E e1 \in events : \E e2 \in Committed :
        /\ e1.kind = "tooLate"
        /\ e2.run = e1.run /\ e2.deduction = e1.deduction /\ e2.payment > e1.payment
        /\ invoices[e2.deduction].PaymentRemittanceId = Some(e2.payment)

\* C10: a match attempt whose transaction throws leaves the store as it was
\* before the attempt (no PaymentRemittanceId changed, no ledger row added)
\* and returns false: the counter is not incremented and the inner loop goes
\* on to the next candidate.
C10_FailureRollsBack ==
    [][failures' # failures =>
          /\ invoices' = invoices
          /\ ledger' = ledger
          /\ mappedPaymentsCount' = mappedPaymentsCount
          /\ \E r \in Procs : dIdx'[r] = dIdx[r] + 1 /\ pIdx'[r] = pIdx[r]]_vars

\* The transaction of a pair that passed every check threw, and the deduction
\* is unmapped and the ledger empty.
C10_Witness ==
    /\ failures = 1
    /\ ledger = << >>
    /\ \E e \in events :
          /\ e.kind = "threw"
          /\ Matchable(e.payment, e.deduction)
          /\ invoices[e.deduction].PaymentRemittanceId = NULL

\* C11: a successful match attempt for (P, D) changes only D's
\* PaymentRemittanceId (set to P's id) and adds at most one ledger row; every
\* payment row, every other deduction, every other field of D and every
\* ledger row that was there is left as it was.
C11_SuccessFrame ==
    [][\A r \in Procs :
          mappedPaymentsCount'[r] = mappedPaymentsCount[r] + 1 =>
             LET p == payment(r)
                 d == deduction(r)
             IN /\ DOMAIN invoices' = DOMAIN invoices
                /\ \A id \in DOMAIN invoices : \A f \in DOMAIN invoices[id] :
                      (id # d.Id \/ f # "PaymentRemittanceId") =>
                          invoices'[id][f] = invoices[id][f]
                /\ invoices'[d.Id].PaymentRemittanceId = Some(p.Id)
                /\ Len(ledger') \in {Len(ledger), Len(ledger) + 1}
                /\ \A i \in DOMAIN ledger : ledger'[i] = ledger[i]]_vars

\* A match was committed next to a ledger row of an earlier match and an
\* unmapped second deduction: it added one ledger row and mapped one deduction.
C11_Witness ==
    /\ Len(ledger) = 2
    /\ ledger[1] = EarlierLedgerRow
    /\ mappedPaymentsCount[FirstProc] = 1
    /\ \E e \in Committed :
          /\ invoices[e.deduction].PaymentRemittanceId = Some(e.payment)
          /\ \E d \in DeductionIds \ {e.deduction} :
                invoices[d].PaymentRemittanceId = NULL

\* C12: a failed match attempt never halts the run: every run that has
\* started, whether or not one of its transactions threw, goes through all
\* its payments and reaches its end-of-run summary.
C12_FailureDoesNotHaltRun ==
    \A n \in 1..MaxStarts :
        (run[FirstProc] = n /\ pc[FirstProc] = "processing")
            ~> (/\ pc[FirstProc] = "idle"
                /\ pIdx[FirstProc] > Len(payments[FirstProc])
                /\ report[FirstProc] # NULL
                /\ Val(report[FirstProc]).run = n
                /\ Val(report[FirstProc]).total = Len(payments[FirstProc]))

\* A transaction threw for the first candidate of a payment; the run went on
\* to commit the second candidate for that payment, found nothing for a later
\* payment, and printed its summary.
C12_Witness ==
    /\ pc[FirstProc] = "idle"
    /\ report[FirstProc] # NULL
    /\ \E e1 \in events : \E e2 \in Committed :
          /\ e1.kind = "threw"
          /\ e1.run = run[FirstProc] /\ e2.run = e1.run
          /\ e2.payment = e1.payment /\ e2.deduction > e1.deduction
          /\ \E e3 \in events :
                e3.run = e1.run /\ e3.payment > e1.payment /\ e3.kind = "ineligible"

\* C13: a deduction whose PaymentRemittanceId has been set never returns to
\* the unmapped (null) state: no step of the engine takes the field from a
\* value to null.
C13_NeverCleared ==
    [][\A d \in DeductionIds :
          invoices[d].PaymentRemittanceId # NULL =>
              invoices'[d].PaymentRemittanceId # NULL]_vars

\* The transaction of a later payment threw on a deduction that was already
\* mapped, and the deduction still points at the payment it was mapped to.
C13_Witness ==
    \E e1 \in Committed : \E e2 \in events :
        /\ e2.kind = "threw"
        /\ e2.run = e1.run /\ e2.deduction = e1.deduction /\ e2.payment > e1.payment
        /\ invoices[e1.deduction].PaymentRemittanceId = Some(e1.payment)

\* The deduction has a case link, the linked case is in VendorCase with a
\* non-null validity flag, the vendor that owns the case is in Vendor, and
\* that vendor has an organization id.
CaseResolves(row) ==
    /\ row.ReversalForVendorCaseId # NULL
    /\ \E vc \in VendorCaseTable :
          /\ vc.Id = Val(row.ReversalForVendorCaseId)
          /\ vc.IsValidCase # NULL
          /\ vc.VendorId # NULL
          /\ \E v \in VendorTable :
                v.Id = Val(vc.VendorId) /\ v.OrganizationId # NULL

\* C14: a match is committed for a deduction only if the deduction has a case
\* link, the linked case exists with a non-null validity flag, the vendor that
\* owns the case exists and has an organization id; an attempt on a deduction
\* for which one of these is missing is ineligible and writes nothing.
C14_CaseValidity ==
    /\ [](\A e \in Committed : CaseResolves(invoices[e.deduction]))
    /\ [](\A p \in PaymentIds : \A d \in MappedTo(p) : CaseResolves(invoices[d]))
    /\ [][\A e \in events' \ events :
            (e.kind # "tooLate" /\ e.deduction # 0
               /\ ~CaseResolves(invoices[e.deduction])) =>
                  /\ e.kind = "ineligible"
                  /\ invoices' = invoices
                  /\ ledger' = ledger
                  /\ mappedPaymentsCount' = mappedPaymentsCount]_vars

\* A deduction that agrees with its payment on key, claim type and amount was
\* refused because its case does not resolve (no link, no such case, no
\* validity flag, no such vendor or no organization), and a deduction whose
\* case is flagged invalid (a non-null flag) was committed.
C14_Witness ==
    /\ \E e \in Committed : invoices[e.deduction].ReversalForVendorCaseId = Some(9)
    /\ \E e \in events :
          /\ e.kind = "ineligible"
          /\ invoices[e.deduction].ReversalForVendorCaseId \in {Some(8), Some(10), Some(11),
                                                                Some(12), NULL}
          /\ invoices[e.payment].SubInvoiceNumber = RefPayment.SubInvoiceNumber
          /\ invoices[e.deduction].SubInvoiceNumber = RefDeduction.SubInvoiceNumber
          /\ AmountOrZero(invoices[e.payment]) = -AmountOrZero(invoices[e.deduction])

\* The rate factor of a vendor's profile, in units of 1/10000.
RateFactor == [v \in {1, 2, 4} |-> 12500]

\* amount * rate rounded to 4 decimal places, both in units of 1/10000.
BillableAmount(amount, rate) == (amount * rate + 5000) \div 10000

\* C15: every ledger row inserted by a successful match carries a billable
\* amount equal to the raw payment amount multiplied by the vendor rate factor
\* and rounded to 4 decimal places, alongside the raw amount, the currency, the
\* description and the case reference.
C15_BillableAmount ==
    [][\A r \in Procs :
          (mappedPaymentsCount'[r] = mappedPaymentsCount[r] + 1
             /\ Len(ledger') > Len(ledger)) =>
             LET p == payment(r)
                 d == deduction(r)
                 row == ledger'[Len(ledger')]
             IN /\ row.Amount = <<AmountOrZero(p)>>
                /\ row.CurrencyCode = <<Val(p.InvoiceCurrency)>>
                /\ row.Description[1] = "Billing for "
                /\ p.InvoiceNumber # NULL => row.Description[2] = Val(p.InvoiceNumber)
                /\ row.CaseId = <<Val(d.ReversalForVendorCaseId)>>
                /\ "BillableAmount" \in DOMAIN row
                /\ row.BillableAmount =
                     BillableAmount(AmountOrZero(p), RateFactor[p.VendorId])]_vars

\* The sub-invoice identifier contains exactly one of the markers "SC", "PC".
ExactlyOneMarker(row) == ContainsSC(row) # ContainsPC(row)

\* C16: a match is committed only when the payment's and the deduction's
\* sub-invoice identifiers each contain exactly one of the two claim markers
\* "SC" and "PC": a record that contains neither marker, or both, is never
\* part of a committed match.
C16_ExactlyOneMarker ==
    /\ \A e \in Committed :
          ExactlyOneMarker(invoices[e.payment]) /\ ExactlyOneMarker(invoices[e.deduction])
    /\ \A p \in PaymentIds : \A d \in MappedTo(p) :
          ExactlyOneMarker(invoices[p]) /\ ExactlyOneMarker(invoices[d])

\* The position of the row with an id in a sequence of rows.
IndexOf(rows, id) == CHOOSE i \in DOMAIN rows : rows[i].Id = id

\* The steps of a run on a pair, by kind.
StepsOn(runNo, paymentId, deductionId, kinds) ==
    {e \in events : /\ e.run = runNo /\ e.payment = paymentId
                    /\ e.deduction = deductionId /\ e.kind \in kinds}

\* C17: buildDeductionMap groups the deductions by VendorId|RootInvoiceNumber
\* and keeps their input order within each group; the deduction mapped to a
\* payment is the first of its group, in that order, that passes the
\* chronology check and commits: every candidate before it was skipped as too
\* late, refused or failed, and no candidate after it is attempted for that
\* payment.
C17_GroupOrderFirstWins ==
    /\ [][\A r \in Procs :
            run'[r] # run[r] =>
               LET input == fetchUnmappedDeductions(invoices)
                   map == deductionMap'[r]
               IN /\ \A i \in DOMAIN input :
                        \E k \in DOMAIN map : \E a \in DOMAIN map[k] : map[k][a] = input[i]
                  /\ \A k \in DOMAIN map : \A a, b \in DOMAIN map[k] :
                        /\ k = <<map[k][a].VendorId, "|", map[k][a].RootInvoiceNumber>>
                        /\ \E i \in DOMAIN input : input[i] = map[k][a]
                        /\ a < b => IndexOf(input, map[k][a].Id) < IndexOf(input, map[k][b].Id)]_vars
    /\ [](\A r \in Procs : \A e \in Committed :
            e.run = run[r] =>
               LET group == deductionsForKey(deductionMap[r], invoices[e.payment])
               IN /\ \E i \in DOMAIN group : group[i].Id = e.deduction
                  /\ \A i \in DOMAIN group :
                        /\ i < IndexOf(group, e.deduction) =>
                              /\ StepsOn(e.run, e.payment, group[i].Id,
                                         {"tooLate", "ineligible", "threw"}) # {}
                              /\ StepsOn(e.run, e.payment, group[i].Id, {"committed"}) = {}
                        /\ i > IndexOf(group, e.deduction) =>
                              StepsOn(e.run, e.payment, group[i].Id,
                                      {"tooLate", "ineligible", "threw", "committed"}) = {})

\* In a group of two deductions the first candidate was refused or failed for
\* a payment and the second was committed for it.
C17_Witness ==
    \E r \in Procs : \E e \in Committed :
        /\ e.run = run[r]
        /\ LET group == deductionsForKey(deductionMap[r], invoices[e.payment])
           IN /\ Len(group) = 2
              /\ group[1].Id < group[2].Id
              /\ group[2].Id = e.deduction
              /\ StepsOn(e.run, e.payment, group[1].Id, {"ineligible", "threw"}) # {}

\* The payments for which a run committed a match.
MatchedIn(runNo) == {e.payment : e \in {c \in Committed : c.run = runNo}}

\* C18: at the end of a run the reported matched counter equals the number of
\* payments of that run for which a match attempt committed (earlier runs do
\* not contribute, the counter being reset at the start of each run), and it
\* never exceeds the number of payments seen.
C18_MatchedCounter ==
    /\ \A r \in Procs :
          (pc[r] = "idle" /\ report[r] # NULL) =>
              /\ Val(report[r]).run = run[r]
              /\ Val(report[r]).mapped = Cardinality(MatchedIn(run[r]))
              /\ Val(report[r]).mapped <= Val(report[r]).total
    /\ \A r \in Procs :
          pc[r] = "processing" =>
              /\ mappedPaymentsCount[r] = Cardinality(MatchedIn(run[r]))
              /\ mappedPaymentsCount[r] <= Len(payments[r])

\* A second run of the same process ended with one payment matched, after a
\* first run that had matched a payment too.
C18_Witness ==
    /\ pc[FirstProc] = "idle"
    /\ run[FirstProc] = 2
    /\ report[FirstProc] # NULL
    /\ Val(report[FirstProc]).mapped = 1
    /\ MatchedIn(1) # {}

\* C19: at the end of a run, every payment the run counted as matched is still
\* referenced by some deduction (a deduction's PaymentRemittanceId equals the
\* payment's id), so the number of payments counted as matched does not exceed
\* the number of deductions the run mapped.
C19_MatchedStillReferenced ==
    \A r \in Procs :
        (pc[r] = "idle" /\ report[r] # NULL) =>
            /\ \A p \in MatchedIn(run[r]) : MappedTo(p) # {}
            /\ Val(report[r]).mapped <=
                 Cardinality({e.deduction : e \in {c \in Committed : c.run = run[r]}})

\* C20: every mapping a run writes joins records of the same composite key:
\* whenever a deduction's PaymentRemittanceId is set to payment P's id, the
\* deduction and P have the same VendorId and the same RootInvoiceNumber.
C20_SameCompositeKey ==
    /\ \A p \in PaymentIds : \A d \in MappedTo(p) :
          /\ invoices[d].VendorId = invoices[p].VendorId
          /\ invoices[d].RootInvoiceNumber = invoices[p].RootInvoiceNumber
    /\ \A e \in Committed :
          /\ invoices[e.deduction].VendorId = invoices[e.payment].VendorId
          /\ invoices[e.deduction].RootInvoiceNumber = invoices[e.payment].RootInvoiceNumber

\* A run ended with one deduction mapped and another left unmapped that
\* differs from the payment only in its vendor or its root invoice number.
C20_Witness ==
    /\ pc[FirstProc] = "idle"
    /\ Committed # {}
    /\ \E p \in PaymentIds : \E d \in DeductionIds :
          /\ MappedTo(p) # {}
          /\ invoices[d].PaymentRemittanceId = NULL
          /\ <<invoices[d].VendorId, invoices[d].RootInvoiceNumber>> #
               <<invoices[p].VendorId, invoices[p].RootInvoiceNumber>>
          /\ ContainsSC(invoices[p]) /\ ContainsSC(invoices[d])
          /\ AmountOrZero(invoices[p]) = -AmountOrZero(invoices[d])
          /\ invoices[d].ReversalForVendorCaseId = Some(7)
          /\ invoices[d].InvoiceDate <= invoices[p].InvoiceDate

=============================================================================
